---- MODULE Spec2Model ----
(***************************************************************************)
(* StateFlow execution subsystem: the execution store (FileStore and the   *)
(* SQL store with its claim_executions / release_stale_locks functions),   *)
(* the execution runner runWorkflowExecution, the worker poll loop, the    *)
(* cancel route and the dead letter queue.                                 *)
(*                                                                         *)
(* Processes: one API process (create, cancel), one process per worker     *)
(* (apps/api/src/workers/worker.ts).  Every store call is one atomic step  *)
(* (FileStore: the section between mkdirSync(lockPath) and rmdirSync;      *)
(* SQL: one statement).  Processes interleave between store calls.         *)
(*                                                                         *)
(* Time is a tick counter.  Durations are scaled to ticks: the retry delay  *)
(* (at most 36 s) is shorter than the FileStore lock lease (300 s); the    *)
(* stale lock threshold is the parameter the caller of release_stale_locks *)
(* chooses.  The value 0 stands for an unset date, "none" for an unset     *)
(* string.                                                                 *)
(***************************************************************************)
EXTENDS Integers, Sequences, FiniteSets, TLC

\* ------------------------------------------------------------------ bounds
MaxExec == 1          \* executions created in one behaviour of Spec
MaxRows == 2          \* executions created in one behaviour of StoreSpec
MaxLimit == 2         \* largest batch size a StoreSpec caller asks for
MaxTime == 3          \* last tick of the clock
MaxCrash == 1         \* worker process crashes in one behaviour
MaxCancel == 1        \* cancel requests in one behaviour
MaxTimeLong == 4      \* last tick of the clock in LongSpec
MaxCancelApi == 2     \* cancel requests in one behaviour of CancelSpec
StopDeadline == 1     \* ticks a stopping worker may wait for its runs
MaxTimeout == 3       \* largest step timeout of TimeoutSpec, in time units
MaxDuration == 4      \* longest handler run of TimeoutSpec, in time units
MaxElapsed == 5       \* time units for which TimeoutSpec follows a call
NonPositiveAttempts == 2   \* attempt numbers at or below zero passed to calculateNextDelay
MaxAttempt == 5       \* largest attempt number passed to calculateNextDelay
MaxSent == 3          \* STEP_FAILED events sent for one step in MachineSpec
MaxPolicyAttempts == 3   \* largest maxAttempts of a policy passed to withRetry
LowConcurrency == 1   \* WORKER_CONCURRENCY setting of the workers of WorkerSpec

\* --------------------------------------------------------------- constants
WORKER_CONCURRENCY == 3       \* worker.ts:13  (default of the env setting)
LockLease == 2                \* file-store.ts:272  300000 ms, in ticks
StaleThreshold == 1           \* 002_atomic_claiming.sql:46, in ticks
LockTimeout == 1          \* 5000 ms: lock directory staleness and claim timeout
DefaultMaxAttempts == 3       \* engine.ts:758
RetryDelayTicks == 1          \* engine.ts:780-782, calculateNextDelay, in ticks

Workers == {"w1", "w2"}
Backends == {"file", "sql"}
ExecIds == 1..(IF MaxRows > MaxExec THEN MaxRows ELSE MaxExec)
Keys == {"none", "k1"}
Terminal == {"completed", "failed", "cancelled"}

\* -------------------------------------------------------------- definitions
\* The workflow table.  "wf" is a two step definition; the first step
\* carries retryPolicy.maxAttempts = 2, the second maxAttempts = 1.
\* maxAttempts 0 stands for an absent retryPolicy.
\* "odd" is one step of a type the engine has no case for, with
\* maxAttempts = 2.  "guard" is a step with maxAttempts = 2 whose onError
\* names a second step, which no nextStep leads to.
Steps(wf) ==
    IF wf = "wf"
    THEN <<[id |-> "s1", next |-> "s2", maxAttempts |-> 2, type |-> "log",
            onError |-> "none"],
           [id |-> "s2", next |-> "none", maxAttempts |-> 1, type |-> "log",
            onError |-> "none"]>>
    ELSE IF wf = "odd"
    THEN <<[id |-> "s1", next |-> "none", maxAttempts |-> 2,
            type |-> "mystery", onError |-> "none"]>>
    ELSE IF wf = "guard"
    THEN <<[id |-> "s1", next |-> "none", maxAttempts |-> 2, type |-> "log",
            onError |-> "s2"],
           [id |-> "s2", next |-> "none", maxAttempts |-> 1, type |-> "log",
            onError |-> "none"]>>
    ELSE <<>>

WorkflowIds == {"wf", "ghost"}
KnownWorkflows == {"wf", "odd", "guard"}

\* the cases of the switch in executeStep (engine.ts:472-579)
HandlerTypes == {"log", "http", "transform", "condition", "delay"}

\* the results executeStep can return for a step (engine.ts:445-606)
executeStep(step) ==
    IF step.type \in HandlerTypes THEN {"completed", "failed"} ELSE {"failed"}
StepIds == {"s1", "s2"}

getWorkflowById(wf) == wf \in KnownWorkflows

\* stepMap.get(id): the step record, or the "none" record when absent
stepMapHas(wf, id) == \E i \in 1..Len(Steps(wf)) : Steps(wf)[i].id = id
stepMapGet(wf, id) ==
    LET i == CHOOSE i \in 1..Len(Steps(wf)) : Steps(wf)[i].id = id
    IN  Steps(wf)[i]

firstStepId(wf) == IF Len(Steps(wf)) > 0 THEN Steps(wf)[1].id ELSE "none"

\* step.retryPolicy?.maxAttempts || 3
MaxAttemptsOf(step) ==
    IF step.maxAttempts = 0 THEN DefaultMaxAttempts ELSE step.maxAttempts

\* ------------------------------------------------------------------- state
VARIABLES
    store,            \* "file" | "sql": the ExecutionStore behind demoStore
    fsLock,           \* the FileStore lock directory and the claim calls on it
    workerState,      \* workerState[w]: isRunning and the progress of stop()
    now,              \* the wall clock, in ticks
    executions,       \* the persisted executions, a sequence indexed by id
    idempotencyKeys,  \* key -> execution id (0: absent)
    apiMem,           \* the API process' in-memory FileStore.executions (status)
    runner,           \* runner[w][e]: the run of e in worker process w
    activeExecutions, \* activeExecutions[w]: WorkflowWorker.activeExecutions
    dlqMem,           \* dlqMem[w]: DeadLetterQueue.entries of worker process w
    dlqFile,          \* .data/dlq.json
    crashes,          \* worker crashes so far
    cancels,          \* cancel requests so far
    hist,             \* history of the behaviour, read by the properties only
    stepCall,         \* one call of executeStep: handler, timer, result
    delayCall,        \* one call of calculateNextDelay: arguments, result
    machine,          \* one WorkflowStateMachine and the events sent to it
    retryCall,        \* one call of withRetry: policy, attempts, onRetry calls
    run               \* one call of WorkflowRunner.run: workflow, cursor, steps run

\* the variables of the library functions, which the system steps leave alone
unitVars == <<stepCall, delayCall, machine, retryCall, run>>

vars == <<unitVars, store, fsLock, workerState, now, executions,
          idempotencyKeys, apiMem, runner,
          activeExecutions, dlqMem, dlqFile, crashes, cancels, hist>>

Created == DOMAIN executions

\* ------------------------------------------------------- the store, as data
\* createExecutionSync builds this record (file-store.ts:188-205); the SQL
\* insert leaves the same columns at their defaults.
NewExecution(wf, key, t) ==
    [workflowId |-> wf, status |-> "pending", error |-> "none",
     idempotencyKey |-> key, retryCount |-> 0, nextRetryAt |-> 0,
     currentStepId |-> "none", workerId |-> "none", lockedAt |-> 0,
     createdAt |-> t, startedAt |-> 0, completedAt |-> 0,
     steps |-> <<>>, output |-> {}]

\* JavaScript truthiness of an update value, per field
Falsy(f, v) ==
    CASE f \in {"status", "error", "currentStepId"} -> v = "none"
      [] f \in {"nextRetryAt", "startedAt", "completedAt"} -> v = 0
      [] OTHER -> FALSE

\* SqlExecutionStore.updateExecution copies a field only under these tests
SqlCopies(f, v) ==
    /\ f \in {"status", "output", "error", "currentStepId", "retryCount",
              "nextRetryAt", "startedAt", "completedAt"}
    /\ (f = "retryCount" \/ ~Falsy(f, v))

\* FileStore.updateExecution: Object.assign(execution, updates)
FileUpdate(ex, updates) ==
    [f \in DOMAIN ex |-> IF f \in DOMAIN updates THEN updates[f] ELSE ex[f]]

SqlUpdate(ex, updates) ==
    [f \in DOMAIN ex |->
        IF f \in DOMAIN updates /\ SqlCopies(f, updates[f])
        THEN updates[f] ELSE ex[f]]

updateExecution(execs, id, updates) ==
    IF id \notin DOMAIN execs THEN execs
    ELSE [execs EXCEPT ![id] =
            IF store = "file" THEN FileUpdate(@, updates)
                              ELSE SqlUpdate(@, updates)]

\* FileStore.addStepResult: findIndex on stepId, replace or push
FileAddStep(steps, r) ==
    IF \E i \in 1..Len(steps) : steps[i].stepId = r.stepId
    THEN LET i == CHOOSE i \in 1..Len(steps) :
                    /\ steps[i].stepId = r.stepId
                    /\ \A j \in 1..(i - 1) : steps[j].stepId # r.stepId
         IN  [steps EXCEPT ![i] = r]
    ELSE Append(steps, r)

\* SqlExecutionStore.addStepResult: insert into step_results
SqlAddStep(steps, r) == Append(steps, r)

addStepResult(execs, id, r) ==
    IF id \notin DOMAIN execs THEN execs
    ELSE [execs EXCEPT ![id].steps =
            IF store = "file" THEN FileAddStep(@, r) ELSE SqlAddStep(@, r)]

\* ------------------------------------------------------------ claim, as data
\* a filter that never lets a retry through
ClaimablePendingOnly(ex, t) == ex.status = "pending"

\* a filter that lets a retry through before it is due
ClaimableIgnoresDue(ex, t) == ex.status \in {"pending", "retry_scheduled"}

\* a filter that also lets a running row through
ClaimableAnyStatus(ex, t) ==
    \/ ex.status \in {"pending", "running"}
    \/ /\ ex.status = "retry_scheduled"
       /\ ex.nextRetryAt # 0
       /\ ex.nextRetryAt <= t

\* the filter of claimExecutions / the WHERE clause of claim_executions
Claimable(ex, t) ==
    \/ ex.status = "pending"
    \/ /\ ex.status = "retry_scheduled"
       /\ ex.nextRetryAt # 0
       /\ ex.nextRetryAt <= t

Candidates(execs, t) == {e \in DOMAIN execs : Claimable(execs[e], t)}

\* FileStore sorts candidates on nextRetryAt || createdAt; Array.sort is
\* stable, so ties keep the insertion order of the Map, which is the id order
FileSortKey(ex) == IF ex.nextRetryAt # 0 THEN ex.nextRetryAt ELSE ex.createdAt

FileBefore(execs, a, b) ==
    \/ FileSortKey(execs[a]) < FileSortKey(execs[b])
    \/ (FileSortKey(execs[a]) = FileSortKey(execs[b]) /\ a < b)

\* .slice(0, limit)
FileSlice(execs, t, limit) ==
    {e \in Candidates(execs, t) :
        Cardinality({c \in Candidates(execs, t) : FileBefore(execs, c, e)}) < limit}

\* "Check lock expiry again": a candidate with a young lockedAt is skipped
FileLockHeld(ex, t) == ex.lockedAt # 0 /\ (t - ex.lockedAt) < LockLease

FileClaimed(execs, t, limit) ==
    {e \in FileSlice(execs, t, limit) : ~FileLockHeld(execs[e], t)}

\* ORDER BY created_at ASC LIMIT n: any n candidates none of which is younger
\* than a candidate left out (the order among equal created_at is unspecified)
SqlClaimSets(execs, t, limit) ==
    {S \in SUBSET Candidates(execs, t) :
        /\ Cardinality(S) <= limit
        /\ (Cardinality(S) = limit \/ S = Candidates(execs, t))
        /\ \A a \in S, b \in Candidates(execs, t) \ S :
              execs[a].createdAt <= execs[b].createdAt}

\* the sets of executions one claim call may return
ClaimSets(execs, t, limit) ==
    IF store = "file" THEN {FileClaimed(execs, t, limit)}
                      ELSE SqlClaimSets(execs, t, limit)

\* a stamp that overwrites started_at
StampResetsStart(ex, w, t) ==
    [ex EXCEPT !.workerId = w, !.lockedAt = t, !.status = "running",
               !.startedAt = t]

\* the row of a claimed execution (file-store.ts:274-279, the SET clause)
Stamp(ex, w, t) ==
    [ex EXCEPT !.workerId = w, !.lockedAt = t, !.status = "running",
               !.startedAt = IF @ = 0 THEN t ELSE @]

claimExecutions(execs, w, t, S) ==
    [e \in DOMAIN execs |-> IF e \in S THEN Stamp(execs[e], w, t) ELSE execs[e]]

\* release_stale_locks(stale_threshold_minutes)
StaleLock(ex, t) ==
    ex.status = "running" /\ ex.lockedAt # 0 /\ ex.lockedAt < t - StaleThreshold

release_stale_locks(execs, t) ==
    [e \in DOMAIN execs |->
        IF StaleLock(execs[e], t)
        THEN [execs[e] EXCEPT !.status = "pending", !.workerId = "none",
                              !.lockedAt = 0]
        ELSE execs[e]]

\* ---------------------------------------------------------------- the runner
Idle == [pc |-> "idle", wf |-> "none", retryCount |-> 0, cur |-> "none",
         state |-> {}, result |-> "none", startedAt |-> 0]

\* runWorkflowExecution up to the loop (engine.ts:613-669), from the
\* execution record ex that getExecution returned
StartRun(ex) ==
    [pc |-> IF ~getWorkflowById(ex.workflowId) THEN "nowf"
            ELSE IF ex.status # "running" THEN "mark" ELSE "check",
     wf |-> ex.workflowId,
     retryCount |-> ex.retryCount,
     cur |-> IF ex.currentStepId # "none" THEN ex.currentStepId
             ELSE firstStepId(ex.workflowId),
     state |-> ex.output,
     result |-> "none",
     startedAt |-> ex.startedAt]

Running(w, e) == runner[w][e].pc # "idle"

\* ------------------------------------------------------------------ history
NoBurst == [e \in ExecIds |-> 0]

HistInit ==
    [claimed   |-> NoBurst,   \* e -> callers it was returned to in this burst
     pendingAt |-> 0,         \* claimable executions when the burst began
     inBurst   |-> FALSE,
     returned  |-> [k \in Keys |-> {}],         \* ids createExecution returned
     deduped   |-> {},        \* keys for which an existing id was returned
     appends   |-> [e \in ExecIds |-> <<>>],    \* addStepResult calls, in order
     runs      |-> [e \in ExecIds |-> <<>>],    \* executeStep calls, in order
     retries   |-> [e \in ExecIds |-> 0],       \* retries the runner scheduled
     cancelled |-> {},        \* cancel written while the status was running
     cancelLog |-> <<>>,      \* cancel requests: stored status, response
     failedBy  |-> [e \in ExecIds |-> "none"]]  \* why the runner set failed

\* any operation other than a claim ends a burst of concurrent claim calls
EndBurst(h) == [h EXCEPT !.claimed = NoBurst, !.pendingAt = 0, !.inBurst = FALSE]

\* no lock directory (dir = 0, else its mtime), no claim call under way
IdleCall == [pc |-> "idle", start |-> 0, limit |-> 0]

FsLockInit == [dir |-> 0, call |-> [w \in Workers |-> IdleCall]]

\* WorkflowWorker after start(): isRunning is true, stop() was not called
Started == [isRunning |-> TRUE, stopAt |-> 0, exited |-> FALSE]

\* no library call under way; a WorkflowStateMachine as constructed
NoStepCall ==
    [impl |-> "none", timeoutMs |-> 0, duration |-> 0, outcome |-> "none",
     elapsed |-> 0, handler |-> "none", timer |-> "none", result |-> "none"]

NoDelayCall ==
    [attempt |-> 0, baseDelayMs |-> 0, maxDelayMs |-> 0, done |-> FALSE,
     result |-> 0]

\* failedSteps[s] is the attempts recorded for s (0: no entry); sent[s]
\* counts the STEP_FAILED events for s sent to the machine after START while
\* it was running or had failed on a step
NewMachine ==
    [machineState |-> "idle", status |-> "pending", completedSteps |-> {},
     failedSteps |-> [s \in StepIds |-> 0], sent |-> [s \in StepIds |-> 0]]

\* no call of withRetry under way
NoRetryCall ==
    [maxAttempts |-> 0, delayMs |-> 0, backoffMultiplier |-> 0,
     maxDelayMs |-> 0, pc |-> "none", attempt |-> 0, calls |-> <<>>,
     retries |-> <<>>]

\* no call of WorkflowRunner.run under way
NoRun ==
    [steps |-> <<>>, pc |-> "none", cur |-> "none", log |-> <<>>,
     status |-> "none"]

SystemInit ==
    /\ store \in Backends
    /\ fsLock = FsLockInit
    /\ workerState = [w \in Workers |-> Started]
    /\ now = 1
    /\ executions = <<>>
    /\ idempotencyKeys = [k \in Keys \ {"none"} |-> 0]
    /\ apiMem = <<>>
    /\ runner = [w \in Workers |-> [e \in ExecIds |-> Idle]]
    /\ activeExecutions = [w \in Workers |-> {}]
    /\ dlqMem = [w \in Workers |-> {}]
    /\ dlqFile = {}
    /\ crashes = 0
    /\ cancels = 0
    /\ hist = HistInit

Init ==
    /\ SystemInit
    /\ stepCall = NoStepCall
    /\ delayCall = NoDelayCall
    /\ machine = NewMachine
    /\ run = NoRun
    /\ retryCall = NoRetryCall

\* the API process reloads the file inside every FileStore call it makes
ApiLoad(execs) ==
    IF store = "file" THEN [e \in DOMAIN execs |-> execs[e].status] ELSE <<>>

\* what demoStore.getExecution(id).status is in the API process
ApiStatus(e) == IF store = "file" THEN apiMem[e] ELSE executions[e].status

\* ------------------------------------------------------------------ actions
TickTo(last) ==
    /\ now < last
    /\ now' = now + 1
    /\ hist' = EndBurst(hist)
    /\ UNCHANGED <<unitVars, store, fsLock, workerState, executions, idempotencyKeys, apiMem, runner,
                   activeExecutions, dlqMem, dlqFile, crashes, cancels>>

Tick == TickTo(MaxTime)

\* a lookup that never finds the key
ExistingForNever(k) == 0

\* the id createExecution returns for key k: the existing one, or a new one
ExistingFor(k) ==
    IF k # "none" /\ idempotencyKeys[k] # 0 /\ idempotencyKeys[k] \in Created
    THEN idempotencyKeys[k] ELSE 0

\* createExecutionSync (file) / SqlExecutionStore.createExecution (sql);
\* cap is the number of executions the behaviour may create
createExecution(cap, wf, k) ==
    /\ (store = "sql" => getWorkflowById(wf))
    /\ IF ExistingFor(k) # 0
       THEN /\ hist' = [EndBurst(hist) EXCEPT
                          !.returned[k] = @ \cup {ExistingFor(k)},
                          !.deduped = @ \cup {k}]
            /\ apiMem' = ApiLoad(executions)
            /\ UNCHANGED <<executions, idempotencyKeys>>
       ELSE /\ Len(executions) < cap
            /\ LET id == Len(executions) + 1 IN
               /\ executions' = Append(executions, NewExecution(wf, k, now))
               /\ idempotencyKeys' =
                    IF k # "none" THEN [idempotencyKeys EXCEPT ![k] = id]
                    ELSE idempotencyKeys
               /\ hist' = [EndBurst(hist) EXCEPT !.returned[k] = @ \cup {id}]
               /\ apiMem' = ApiLoad(executions')
    /\ UNCHANGED <<unitVars, store, fsLock, workerState, now, runner, activeExecutions, dlqMem, dlqFile,
                   crashes, cancels>>

CreateExecution(wf, k) == createExecution(MaxExec, wf, k)

\* one claim call seen from outside: rows stamped, the burst history extended
ClaimCall(w, S) ==
    /\ executions' = claimExecutions(executions, w, now, S)
    /\ hist' = [hist EXCEPT
          !.inBurst = TRUE,
          !.pendingAt = IF hist.inBurst THEN @
                        ELSE Cardinality(Candidates(executions, now)),
          !.claimed = [e \in ExecIds |->
                         IF e \in S THEN hist.claimed[e] + 1
                         ELSE hist.claimed[e]]]

\* WorkflowWorker.poll, one iteration: claim, then start a run of every
\* claimed execution that is not already in activeExecutions.  With the
\* FileStore the run reads the record the claim just loaded and reaches the
\* loop in the same turn; with the SQL store getExecution is a later query.
\* worker.ts:56: while (this.isRunning)
IsRunning(w) == workerState[w].isRunning

\* a capacity test that forgets the executions already running
AvailableSlotsAll(concurrency, active) == concurrency

\* worker.ts:59
AvailableSlots(concurrency, active) == concurrency - Cardinality(active)

PollWith(concurrency, w) ==
    LET availableSlots == AvailableSlots(concurrency, activeExecutions[w]) IN
    /\ IsRunning(w)
    /\ availableSlots > 0
    /\ \E S \in ClaimSets(executions, now, availableSlots) :
        LET started == S \ activeExecutions[w] IN
        /\ ClaimCall(w, S)
        /\ runner' = [runner EXCEPT ![w] =
              [e \in ExecIds |->
                  IF e \in started
                  THEN IF store = "file" THEN StartRun(executions'[e])
                       ELSE [Idle EXCEPT !.pc = "start"]
                  ELSE runner[w][e]]]
        /\ activeExecutions' = [activeExecutions EXCEPT ![w] = @ \cup S]
    /\ UNCHANGED <<unitVars, store, fsLock, workerState, now, idempotencyKeys, apiMem, dlqMem, dlqFile,
                   crashes, cancels>>

Poll(w) == PollWith(WORKER_CONCURRENCY, w)

\* the run of e in worker w returns: processExecution's finally clause
\* removes e from activeExecutions
Return(w, e) ==
    /\ runner' = [runner EXCEPT ![w][e] = Idle]
    /\ activeExecutions' = [activeExecutions EXCEPT ![w] = @ \ {e}]

Goto(w, e, r) ==
    /\ runner' = [runner EXCEPT ![w][e] = r]
    /\ UNCHANGED activeExecutions

\* the loop test `while (currentStepId)` for the cursor id
LoopPc(id) == IF id # "none" THEN "check" ELSE "complete"

\* engine.ts:613-635 on the SQL store: getExecution is a query of its own
RunnerStart(w, e) ==
    /\ runner[w][e].pc = "start"
    /\ Goto(w, e, StartRun(executions[e]))
    /\ hist' = EndBurst(hist)
    /\ UNCHANGED <<unitVars, store, fsLock, workerState, now, executions, idempotencyKeys, apiMem, dlqMem,
                   dlqFile, crashes, cancels>>

\* engine.ts:619-628: workflow not found
RunnerNoWorkflow(w, e) ==
    /\ runner[w][e].pc = "nowf"
    /\ executions' = updateExecution(executions, e,
          [status |-> "failed", error |-> "nowf", completedAt |-> now])
    /\ Return(w, e)
    /\ hist' = [EndBurst(hist) EXCEPT !.failedBy[e] = "nowf"]
    /\ UNCHANGED <<unitVars, store, fsLock, workerState, now, idempotencyKeys, apiMem, dlqMem, dlqFile,
                   crashes, cancels>>

\* engine.ts:637-664: the record read at the start was not running
RunnerMark(w, e) ==
    LET r == runner[w][e] IN
    /\ r.pc = "mark"
    /\ executions' = updateExecution(executions, e,
          [status |-> "running",
           startedAt |-> IF r.startedAt # 0 THEN r.startedAt ELSE now])
    /\ Goto(w, e, [r EXCEPT !.pc = LoopPc(r.cur)])
    /\ hist' = EndBurst(hist)
    /\ UNCHANGED <<unitVars, store, fsLock, workerState, now, idempotencyKeys, apiMem, dlqMem, dlqFile,
                   crashes, cancels>>

\* engine.ts:675-695: reload, cancellation check, step lookup
RunnerCheck(w, e) ==
    LET r == runner[w][e] IN
    /\ r.pc = "check"
    /\ IF executions[e].status = "cancelled"
       THEN /\ Return(w, e)
            /\ hist' = EndBurst(hist)
       ELSE IF ~stepMapHas(r.wf, r.cur)
       THEN /\ Goto(w, e, [r EXCEPT !.pc = "fatal"])
            /\ hist' = [EndBurst(hist) EXCEPT !.failedBy[e] = "nostep"]
       ELSE /\ Goto(w, e, [r EXCEPT !.pc = "persist"])
            /\ hist' = EndBurst(hist)
    /\ UNCHANGED <<unitVars, store, fsLock, workerState, now, executions, idempotencyKeys, apiMem, dlqMem,
                   dlqFile, crashes, cancels>>

\* engine.ts:698-713: persist the resume pointer, then call executeStep
RunnerPersist(w, e) ==
    LET r == runner[w][e] IN
    /\ r.pc = "persist"
    /\ executions' = updateExecution(executions, e, [currentStepId |-> r.cur])
    /\ Goto(w, e, [r EXCEPT !.pc = "step"])
    /\ hist' = [EndBurst(hist) EXCEPT !.runs[e] = Append(@, r.cur)]
    /\ UNCHANGED <<unitVars, store, fsLock, workerState, now, idempotencyKeys, apiMem, dlqMem, dlqFile,
                   crashes, cancels>>

\* engine.ts:713-725: executeStep returns res; reload, cancellation re-check
RunnerStepDone(w, e, res) ==
    LET r == runner[w][e] IN
    /\ r.pc = "step"
    /\ res \in executeStep(stepMapGet(r.wf, r.cur))
    /\ IF executions[e].status = "cancelled"
       THEN Return(w, e)
       ELSE Goto(w, e, [r EXCEPT !.result = res,
                                 !.pc = IF res = "completed" THEN "c1" ELSE "f1"])
    /\ hist' = EndBurst(hist)
    /\ UNCHANGED <<unitVars, store, fsLock, workerState, now, executions, idempotencyKeys, apiMem, dlqMem,
                   dlqFile, crashes, cancels>>

\* engine.ts:730-733
RunnerResetRetry(w, e) ==
    LET r == runner[w][e] IN
    /\ r.pc = "c1"
    /\ executions' = updateExecution(executions, e,
          [retryCount |-> 0, nextRetryAt |-> 0])
    /\ Goto(w, e, [r EXCEPT !.pc = "c2"])
    /\ hist' = EndBurst(hist)
    /\ UNCHANGED <<unitVars, store, fsLock, workerState, now, idempotencyKeys, apiMem, dlqMem, dlqFile,
                   crashes, cancels>>

\* const attemptCount = (execution.retryCount || 0) + 1
AttemptOf(r) == r.retryCount + 1

StepRecord(r, status) ==
    [stepId |-> r.cur, status |-> status, attempts |-> AttemptOf(r)]

\* engine.ts:735-743
RunnerAddCompleted(w, e) ==
    LET r == runner[w][e] IN
    /\ r.pc = "c2"
    /\ executions' = addStepResult(executions, e, StepRecord(r, "completed"))
    /\ Goto(w, e, [r EXCEPT !.pc = "c3"])
    /\ hist' = [EndBurst(hist) EXCEPT
                  !.appends[e] = Append(@, StepRecord(r, "completed"))]
    /\ UNCHANGED <<unitVars, store, fsLock, workerState, now, idempotencyKeys, apiMem, dlqMem, dlqFile,
                   crashes, cancels>>

\* engine.ts:745-753: persist the state, move the cursor to result.nextStep
RunnerAdvance(w, e) ==
    LET r == runner[w][e]
        next == stepMapGet(r.wf, r.cur).next
    IN
    /\ r.pc = "c3"
    /\ executions' = updateExecution(executions, e,
          [output |-> r.state \cup {r.cur}])
    /\ Goto(w, e, [r EXCEPT !.state = @ \cup {r.cur}, !.cur = next,
                            !.retryCount = 0, !.result = "none",
                            !.pc = LoopPc(next)])
    /\ hist' = EndBurst(hist)
    /\ UNCHANGED <<unitVars, store, fsLock, workerState, now, idempotencyKeys, apiMem, dlqMem, dlqFile,
                   crashes, cancels>>

\* attempts < maxAttempts
ShouldRetry(attempts, maxAttempts) == attempts < maxAttempts

\* a runner that follows the failed step's onError when the budget is spent
GiveUpOnError(r, step) ==
    IF step.onError # "none"
    THEN [r EXCEPT !.cur = step.onError, !.retryCount = 0,
                   !.result = "none", !.pc = "check"]
    ELSE [r EXCEPT !.pc = "fatal"]

\* engine.ts:803-806: the budget is spent, the error is thrown to the catch
GiveUp(r, step) == [r EXCEPT !.pc = "fatal"]

\* engine.ts:757-777, 803-806: record the failure, then retry or give up
RunnerAddFailed(w, e) ==
    LET r == runner[w][e]
        step == stepMapGet(r.wf, r.cur)
        maxAttempts == MaxAttemptsOf(step)
        retry == ShouldRetry(AttemptOf(r), maxAttempts)
    IN
    /\ r.pc = "f1"
    /\ executions' = addStepResult(executions, e, StepRecord(r, "failed"))
    /\ Goto(w, e, IF retry THEN [r EXCEPT !.pc = "f2"] ELSE GiveUp(r, step))
    /\ hist' = [EndBurst(hist) EXCEPT
                  !.appends[e] = Append(@, StepRecord(r, "failed")),
                  !.failedBy[e] = IF retry THEN @ ELSE "exhausted"]
    /\ UNCHANGED <<unitVars, store, fsLock, workerState, now, idempotencyKeys, apiMem, dlqMem, dlqFile,
                   crashes, cancels>>

\* a retry write that leaves the step and the due time out
RetryUpdateBare(r, t) ==
    [status |-> "retry_scheduled", retryCount |-> AttemptOf(r), error |-> "step"]

\* engine.ts:785-791: the fields of the retry write
RetryUpdate(r, t) ==
    [status |-> "retry_scheduled", retryCount |-> AttemptOf(r),
     nextRetryAt |-> t + RetryDelayTicks, error |-> "step",
     currentStepId |-> r.cur]

\* engine.ts:779-801: schedule the retry and return
RunnerSchedule(w, e) ==
    LET r == runner[w][e] IN
    /\ r.pc = "f2"
    /\ executions' = updateExecution(executions, e, RetryUpdate(r, now))
    /\ Return(w, e)
    /\ hist' = [EndBurst(hist) EXCEPT !.retries[e] = @ + 1]
    /\ UNCHANGED <<unitVars, store, fsLock, workerState, now, idempotencyKeys, apiMem, dlqMem, dlqFile,
                   crashes, cancels>>

\* engine.ts:810-821: the loop ended, the workflow completed
RunnerComplete(w, e) ==
    LET r == runner[w][e] IN
    /\ r.pc = "complete"
    /\ executions' = updateExecution(executions, e,
          [status |-> "completed", output |-> r.state, completedAt |-> now,
           currentStepId |-> "none"])
    /\ Return(w, e)
    /\ hist' = EndBurst(hist)
    /\ UNCHANGED <<unitVars, store, fsLock, workerState, now, idempotencyKeys, apiMem, dlqMem, dlqFile,
                   crashes, cancels>>

\* engine.ts:829-843: the catch clause
RunnerFatal(w, e) ==
    LET r == runner[w][e] IN
    /\ r.pc = "fatal"
    /\ executions' = updateExecution(executions, e,
          [status |-> "failed", error |-> "step", output |-> r.state,
           completedAt |-> now])
    /\ Goto(w, e, [r EXCEPT !.pc = "dlq"])
    /\ hist' = EndBurst(hist)
    /\ UNCHANGED <<unitVars, store, fsLock, workerState, now, idempotencyKeys, apiMem, dlqMem, dlqFile,
                   crashes, cancels>>

RECURSIVE SumAttempts(_)
SumAttempts(steps) ==
    IF steps = <<>> THEN 0 ELSE Head(steps).attempts + SumAttempts(Tail(steps))

\* DeadLetterQueue.add: a new entry in this process' map, then save() writes
\* the map of this process over .data/dlq.json
DlqEntry(w, e) ==
    [executionId |-> e, worker |-> w,
     seq |-> Cardinality({d \in dlqMem[w] : d.executionId = e /\ d.worker = w}),
     totalAttempts |-> SumAttempts(executions[e].steps)]

dlqAdd(w, e) == dlqMem[w] \cup {DlqEntry(w, e)}

\* engine.ts:851-852
RunnerDlq(w, e) ==
    /\ runner[w][e].pc = "dlq"
    /\ dlqMem' = [dlqMem EXCEPT ![w] = dlqAdd(w, e)]
    /\ dlqFile' = dlqAdd(w, e)
    /\ Return(w, e)
    /\ hist' = EndBurst(hist)
    /\ UNCHANGED <<unitVars, store, fsLock, workerState, now, executions, idempotencyKeys, apiMem, crashes,
                   cancels>>

\* POST /:id/cancel
CancelRefused(status) == status \in {"completed", "failed"}

CancelWithin(cap, e) ==
    /\ e \in Created
    /\ cancels < cap
    /\ cancels' = cancels + 1
    /\ IF CancelRefused(ApiStatus(e))
       THEN /\ UNCHANGED <<executions, apiMem>>
            /\ hist' = [EndBurst(hist) EXCEPT !.cancelLog = Append(@,
                  [id |-> e, was |-> executions[e].status,
                   response |-> "conflict"])]
       ELSE /\ executions' = updateExecution(executions, e,
                  [status |-> "cancelled", completedAt |-> now,
                   error |-> "cancel"])
            /\ apiMem' = ApiLoad(executions')
            /\ hist' = [EndBurst(hist) EXCEPT
                  !.cancelled =
                     IF executions[e].status = "running" THEN @ \cup {e} ELSE @,
                  !.cancelLog = Append(@,
                     [id |-> e, was |-> executions[e].status,
                      response |-> "ok"])]
    /\ UNCHANGED <<unitVars, store, fsLock, workerState, now, idempotencyKeys, runner, activeExecutions,
                   dlqMem, dlqFile, crashes>>

Cancel(e) == CancelWithin(MaxCancel, e)

\* the operator routine of migration 002, on the SQL store
ReleaseStaleLocks ==
    /\ store = "sql"
    /\ \E e \in Created : StaleLock(executions[e], now)
    /\ executions' = release_stale_locks(executions, now)
    /\ hist' = EndBurst(hist)
    /\ UNCHANGED <<unitVars, store, fsLock, workerState, now, idempotencyKeys, apiMem, runner,
                   activeExecutions, dlqMem, dlqFile, crashes, cancels>>

\* a worker process dies and is restarted: its runs and its activeExecutions
\* are lost, the new process loads .data/dlq.json
Crash(w) ==
    /\ crashes < MaxCrash
    /\ activeExecutions[w] # {}
    /\ crashes' = crashes + 1
    /\ runner' = [runner EXCEPT ![w] = [e \in ExecIds |-> Idle]]
    /\ activeExecutions' = [activeExecutions EXCEPT ![w] = {}]
    /\ dlqMem' = [dlqMem EXCEPT ![w] = dlqFile]
    /\ hist' = EndBurst(hist)
    /\ UNCHANGED <<unitVars, store, fsLock, workerState, now, executions, idempotencyKeys, apiMem, dlqFile,
                   cancels>>

RunnerStep(w, e) ==
    \/ RunnerStart(w, e)
    \/ RunnerNoWorkflow(w, e)
    \/ RunnerMark(w, e)
    \/ RunnerCheck(w, e)
    \/ RunnerPersist(w, e)
    \/ \E res \in {"completed", "failed"} : RunnerStepDone(w, e, res)
    \/ RunnerResetRetry(w, e)
    \/ RunnerAddCompleted(w, e)
    \/ RunnerAdvance(w, e)
    \/ RunnerAddFailed(w, e)
    \/ RunnerSchedule(w, e)
    \/ RunnerComplete(w, e)
    \/ RunnerFatal(w, e)
    \/ RunnerDlq(w, e)

Next ==
    \/ Tick
    \/ \E wf \in WorkflowIds, k \in Keys : CreateExecution(wf, k)
    \/ \E w \in Workers : Poll(w)
    \/ \E w \in Workers, e \in ExecIds : RunnerStep(w, e)
    \/ \E e \in ExecIds : Cancel(e)
    \/ ReleaseStaleLocks
    \/ \E w \in Workers : Crash(w)

Spec == Init /\ [][Next]_vars

\* ------------------------------------------------- the store under its callers
\* StoreSpec drives the store interface the way concurrency.test.ts does: one
\* process whose callers create, claim with a batch size of their own, and
\* patch rows.  Every store call reloads that process's memory (apiMem).
StoreCreate(k) == createExecution(MaxRows, "wf", k)

StoreClaim(w, limit) ==
    /\ \E S \in ClaimSets(executions, now, limit) : ClaimCall(w, S)
    /\ apiMem' = ApiLoad(executions')
    /\ UNCHANGED <<unitVars, store, fsLock, workerState, now, idempotencyKeys, runner,
                   activeExecutions, dlqMem, dlqFile, crashes, cancels>>

\* the patches concurrency.test.ts writes to a row (lines 73, 86-94)
Patches(t) ==
    {[status |-> "retry_scheduled", nextRetryAt |-> t + d] :
        d \in {0, RetryDelayTicks}}
    \cup {[status |-> "completed"]}

StoreUpdate(e, patch) ==
    /\ e \in Created
    /\ executions[e].status \notin Terminal
    /\ executions' = updateExecution(executions, e, patch)
    /\ apiMem' = ApiLoad(executions')
    /\ hist' = EndBurst(hist)
    /\ UNCHANGED <<unitVars, store, fsLock, workerState, now, idempotencyKeys, runner,
                   activeExecutions, dlqMem, dlqFile, crashes, cancels>>

StoreNext ==
    \/ Tick
    \/ \E k \in Keys : StoreCreate(k)
    \/ \E w \in Workers, limit \in 1..MaxLimit : StoreClaim(w, limit)
    \/ \E e \in ExecIds : \E patch \in Patches(now) : StoreUpdate(e, patch)
    \/ ReleaseStaleLocks

StoreSpec == Init /\ [][StoreNext]_vars

\* --------------------------------------------------- the system, kept running
\* LiveSpec is the system without worker crashes and without the operator
\* routine, under a clock that never stops: when the tick counter is at its
\* bound every stored date moves one tick into the past instead.
Older(t) == IF t <= 1 THEN t ELSE t - 1

TickShift ==
    /\ now = MaxTime
    /\ executions' =
         [e \in DOMAIN executions |->
            [executions[e] EXCEPT !.createdAt = Older(@), !.startedAt = Older(@),
                                  !.lockedAt = Older(@), !.completedAt = Older(@),
                                  !.nextRetryAt = Older(@)]]
    /\ runner' = [w \in Workers |-> [e \in ExecIds |->
                     [runner[w][e] EXCEPT !.startedAt = Older(@)]]]
    /\ hist' = EndBurst(hist)
    /\ UNCHANGED <<unitVars, store, fsLock, workerState, now, idempotencyKeys, apiMem, activeExecutions,
                   dlqMem, dlqFile, crashes, cancels>>

LiveNext ==
    \/ Tick
    \/ TickShift
    \/ \E wf \in WorkflowIds, k \in Keys : CreateExecution(wf, k)
    \/ \E w \in Workers : Poll(w)
    \/ \E w \in Workers, e \in ExecIds : RunnerStep(w, e)
    \/ \E e \in ExecIds : Cancel(e)

\* time passes, the poll loop of at least one worker keeps turning
\* (worker.ts:55-89), and every started run takes its next step
LiveSpec ==
    /\ Init
    /\ [][LiveNext]_vars
    /\ WF_vars(Tick \/ TickShift)
    /\ \E w \in Workers : WF_vars(Poll(w))
    /\ \A w \in Workers, e \in ExecIds : WF_vars(RunnerStep(w, e))

\* ------------------------------------------ the FileStore lock directory
\* LockSpec is the claim call of each process taken apart into its file system
\* steps (file-store.ts:241-298): mkdir of the lock directory, the critical
\* section closed by rmdir, and on EEXIST the stale check, the 50 ms spin and
\* the retry or timeout.  On the SQL store the call is one statement.
ClaimBegin(w, limit) ==
    /\ store = "file"
    /\ fsLock.call[w].pc = "idle"
    /\ fsLock' = [fsLock EXCEPT
          !.call[w] = [pc |-> "try", start |-> now, limit |-> limit]]
    /\ UNCHANGED <<unitVars, store, workerState, now, executions, idempotencyKeys, apiMem, runner,
                   activeExecutions, dlqMem, dlqFile, crashes, cancels, hist>>

ClaimMkdir(w) ==
    /\ fsLock.call[w].pc = "try"
    /\ fsLock.dir = 0
    /\ fsLock' = [fsLock EXCEPT !.dir = now, !.call[w].pc = "locked"]
    /\ UNCHANGED <<unitVars, store, workerState, now, executions, idempotencyKeys, apiMem, runner,
                   activeExecutions, dlqMem, dlqFile, crashes, cancels, hist>>

ClaimCritical(w) ==
    /\ fsLock.call[w].pc = "locked"
    /\ \E S \in ClaimSets(executions, now, fsLock.call[w].limit) :
           ClaimCall(w, S)
    /\ apiMem' = ApiLoad(executions')
    /\ fsLock' = [fsLock EXCEPT !.dir = 0, !.call[w] = IdleCall]
    /\ UNCHANGED <<unitVars, store, workerState, now, idempotencyKeys, runner,
                   activeExecutions, dlqMem, dlqFile, crashes, cancels>>

ClaimExists(w) ==
    /\ fsLock.call[w].pc = "try"
    /\ fsLock.dir # 0
    /\ fsLock' = [fsLock EXCEPT
          !.dir = IF now - @ > LockTimeout THEN 0 ELSE @,
          !.call[w].pc = "wait"]
    /\ UNCHANGED <<unitVars, store, workerState, now, executions, idempotencyKeys, apiMem, runner,
                   activeExecutions, dlqMem, dlqFile, crashes, cancels, hist>>

ClaimSpin(w) ==
    /\ fsLock.call[w].pc = "wait"
    /\ fsLock' = [fsLock EXCEPT
          !.call[w] = IF now - @.start > LockTimeout
                      THEN IdleCall
                      ELSE [@ EXCEPT !.pc = "try"]]
    /\ UNCHANGED <<unitVars, store, workerState, now, executions, idempotencyKeys, apiMem, runner,
                   activeExecutions, dlqMem, dlqFile, crashes, cancels, hist>>

ClaimSql(w, limit) ==
    /\ store = "sql"
    /\ StoreClaim(w, limit)

LockNext ==
    \/ Tick
    \/ \E k \in Keys : StoreCreate(k)
    \/ \E w \in Workers, limit \in 1..MaxLimit : ClaimBegin(w, limit)
    \/ \E w \in Workers : ClaimMkdir(w)
    \/ \E w \in Workers : ClaimCritical(w)
    \/ \E w \in Workers : ClaimExists(w)
    \/ \E w \in Workers : ClaimSpin(w)
    \/ \E w \in Workers, limit \in 1..MaxLimit : ClaimSql(w, limit)

LockSpec == Init /\ [][LockNext]_vars

\* ------------------------------------------------- the system, watched longer
\* LongSpec is the system without worker crashes and idempotency keys,
\* watched for one more tick than Spec.
LongNext ==
    \/ TickTo(MaxTimeLong)
    \/ \E wf \in WorkflowIds : CreateExecution(wf, "none")
    \/ \E w \in Workers : Poll(w)
    \/ \E w \in Workers, e \in ExecIds : RunnerStep(w, e)
    \/ \E e \in ExecIds : Cancel(e)
    \/ ReleaseStaleLocks

LongSpec == Init /\ [][LongNext]_vars

\* ------------------------------------------------ the cancel route by itself
\* CancelSpec is the cancel route called against one execution that store
\* callers move through its statuses.
CancelNext ==
    \/ Tick
    \/ \E k \in Keys : CreateExecution("wf", k)
    \/ \E w \in Workers : StoreClaim(w, 1)
    \/ \E e \in ExecIds, patch \in Patches(now) : StoreUpdate(e, patch)
    \/ \E e \in ExecIds : CancelWithin(MaxCancelApi, e)

CancelSpec == Init /\ [][CancelNext]_vars

\* ------------------------------------------------ a worker at its capacity
\* WorkerSpec is one worker process started with a WORKER_CONCURRENCY below
\* the number of executions there are to claim.
WorkerNext ==
    \/ Tick
    \/ \E wf \in WorkflowIds : createExecution(MaxRows, wf, "none")
    \/ PollWith(LowConcurrency, "w1")
    \/ \E e \in ExecIds : RunnerStep("w1", e)
    \/ \E e \in ExecIds : Cancel(e)

WorkerSpec == Init /\ [][WorkerNext]_vars

\* ------------------------------------------------------ a worker told to stop
\* StopSpec is the system in which worker processes receive SIGTERM or SIGINT
\* (worker.ts:141-150).  stop() looks at the active set every 500 ms, less
\* than a tick, so the clock does not advance while a drained worker has not
\* yet left its wait loop.
Stop(w) ==
    /\ workerState[w].isRunning
    /\ workerState' = [workerState EXCEPT
          ![w] = [isRunning |-> FALSE, stopAt |-> now,
                  exited |-> activeExecutions[w] = {}]]
    /\ hist' = EndBurst(hist)
    /\ UNCHANGED <<unitVars, store, fsLock, now, executions, idempotencyKeys, apiMem,
                   runner, activeExecutions, dlqMem, dlqFile, crashes, cancels>>

Draining(w) == ~workerState[w].isRunning /\ ~workerState[w].exited

StopWait(w) ==
    /\ Draining(w)
    /\ activeExecutions[w] = {}
    /\ workerState' = [workerState EXCEPT ![w].exited = TRUE]
    /\ hist' = EndBurst(hist)
    /\ UNCHANGED <<unitVars, store, fsLock, now, executions, idempotencyKeys, apiMem,
                   runner, activeExecutions, dlqMem, dlqFile, crashes, cancels>>

StopTick ==
    /\ \A w \in Workers : ~(Draining(w) /\ activeExecutions[w] = {})
    /\ Tick

StopNext ==
    \/ StopTick
    \/ \E wf \in WorkflowIds : CreateExecution(wf, "none")
    \/ \E w \in Workers : Poll(w)
    \/ \E w \in Workers, e \in ExecIds : RunnerStep(w, e)
    \/ \E e \in ExecIds : Cancel(e)
    \/ \E w \in Workers : Stop(w)
    \/ \E w \in Workers : StopWait(w)

StopSpec == Init /\ [][StopNext]_vars

\* ------------------------------------------- workflows of every step type
\* TypeSpec is the system without worker crashes and operator routine, given
\* executions of the workflow with the unknown step type as well.
TypeNext ==
    \/ Tick
    \/ \E wf \in KnownWorkflows \cup WorkflowIds : CreateExecution(wf, "none")
    \/ \E w \in Workers : Poll(w)
    \/ \E w \in Workers, e \in ExecIds : RunnerStep(w, e)
    \/ \E e \in ExecIds : Cancel(e)

TypeSpec == Init /\ [][TypeNext]_vars

\* ------------------------------------- FileStore calls on the lock directory
\* MutexSpec takes the FileStore's locked methods apart into their file
\* system steps: createExecutionSync (file-store.ts:159-239),
\* claimExecutions (241-304), updateExecution (306-337) and addStepResult
\* (378-414).  Each tries mkdir of the lock directory (ClaimMkdir), on EEXIST
\* checks for a stale directory and spins (ClaimExists, CallSpin), and runs
\* its critical section, closed by rmdir.  A call that has ended keeps its
\* operation and how it ended: "returned" or "thrown".
StoreOps == {"create", "claim", "update", "addStep"}

\* the write the callers of MutexSpec make to execution 1
MutexPatch == [status |-> "cancelled"]
MutexStep == [stepId |-> "s1", status |-> "completed", attempts |-> 1]

MutexInit == Init /\ store = "file"

MutexFrame ==
    UNCHANGED <<unitVars, store, workerState, now, runner, activeExecutions,
                dlqMem, dlqFile, crashes, cancels>>

EndCall(op, outcome) ==
    [pc |-> "idle", start |-> 0, limit |-> 0, op |-> op, outcome |-> outcome]

CallBegin(w, op) ==
    /\ fsLock.call[w].pc = "idle"
    /\ op \in {"update", "addStep"} => 1 \in Created
    /\ fsLock' = [fsLock EXCEPT
          !.call[w] = [pc |-> "try", start |-> now, limit |-> 1, op |-> op]]
    /\ UNCHANGED <<executions, idempotencyKeys, apiMem, hist>>
    /\ MutexFrame

\* the 50 ms spin, then the timeout test of the method: createExecutionSync
\* throws 'Lock timeout' (231), claimExecutions returns [] (297),
\* updateExecution and addStepResult return (330, 407)
CallSpin(w) ==
    LET c == fsLock.call[w] IN
    /\ c.pc = "wait"
    /\ fsLock' = [fsLock EXCEPT
          !.call[w] = IF now - c.start > LockTimeout
                      THEN EndCall(c.op, IF c.op = "create"
                                         THEN "thrown" ELSE "returned")
                      ELSE [c EXCEPT !.pc = "try"]]
    /\ UNCHANGED <<executions, idempotencyKeys, apiMem, hist>>
    /\ MutexFrame

\* file-store.ts:170-214: on an idempotency hit the lock directory is
\* removed at line 179 and the finally clause is still to run
CriticalCreate(w, k) ==
    LET c == fsLock.call[w] IN
    /\ c.pc = "locked"
    /\ c.op = "create"
    /\ IF ExistingFor(k) # 0
       THEN /\ fsLock' = [fsLock EXCEPT !.dir = 0, !.call[w].pc = "finally"]
            /\ hist' = [EndBurst(hist) EXCEPT
                          !.returned[k] = @ \cup {ExistingFor(k)},
                          !.deduped = @ \cup {k}]
            /\ apiMem' = ApiLoad(executions)
            /\ UNCHANGED <<executions, idempotencyKeys>>
       ELSE /\ Len(executions) < MaxExec
            /\ executions' = Append(executions, NewExecution("wf", k, now))
            /\ idempotencyKeys' =
                  [idempotencyKeys EXCEPT ![k] = Len(executions) + 1]
            /\ hist' = [EndBurst(hist) EXCEPT
                          !.returned[k] = @ \cup {Len(executions) + 1}]
            /\ apiMem' = ApiLoad(executions')
            /\ fsLock' = [fsLock EXCEPT
                  !.dir = 0, !.call[w] = EndCall("create", "returned")]
    /\ MutexFrame

\* file-store.ts:215-217: the finally clause removes the lock directory
CreateFinally(w) ==
    /\ fsLock.call[w].pc = "finally"
    /\ fsLock' = [fsLock EXCEPT
          !.dir = 0, !.call[w] = EndCall("create", "returned")]
    /\ UNCHANGED <<executions, idempotencyKeys, apiMem, hist>>
    /\ MutexFrame

\* file-store.ts:247-289
CriticalClaim(w) ==
    LET c == fsLock.call[w] IN
    /\ c.pc = "locked"
    /\ c.op = "claim"
    /\ \E S \in ClaimSets(executions, now, c.limit) : ClaimCall(w, S)
    /\ apiMem' = ApiLoad(executions')
    /\ fsLock' = [fsLock EXCEPT
          !.dir = 0, !.call[w] = EndCall("claim", "returned")]
    /\ UNCHANGED idempotencyKeys
    /\ MutexFrame

\* file-store.ts:312-322
CriticalUpdate(w) ==
    LET c == fsLock.call[w] IN
    /\ c.pc = "locked"
    /\ c.op = "update"
    /\ executions' = updateExecution(executions, 1, MutexPatch)
    /\ apiMem' = ApiLoad(executions')
    /\ hist' = EndBurst(hist)
    /\ fsLock' = [fsLock EXCEPT
          !.dir = 0, !.call[w] = EndCall("update", "returned")]
    /\ UNCHANGED idempotencyKeys
    /\ MutexFrame

\* file-store.ts:384-399
CriticalAddStep(w) ==
    LET c == fsLock.call[w] IN
    /\ c.pc = "locked"
    /\ c.op = "addStep"
    /\ executions' = addStepResult(executions, 1, MutexStep)
    /\ apiMem' = ApiLoad(executions')
    /\ hist' = EndBurst(hist)
    /\ fsLock' = [fsLock EXCEPT
          !.dir = 0, !.call[w] = EndCall("addStep", "returned")]
    /\ UNCHANGED idempotencyKeys
    /\ MutexFrame

MutexNext ==
    \/ Tick
    \/ \E w \in Workers, op \in StoreOps : CallBegin(w, op)
    \/ \E w \in Workers : ClaimMkdir(w)
    \/ \E w \in Workers : ClaimExists(w)
    \/ \E w \in Workers : CallSpin(w)
    \/ \E w \in Workers : CriticalCreate(w, "k1")
    \/ \E w \in Workers : CreateFinally(w)
    \/ \E w \in Workers : CriticalClaim(w)
    \/ \E w \in Workers : CriticalUpdate(w)
    \/ \E w \in Workers : CriticalAddStep(w)

MutexSpec == MutexInit /\ [][MutexNext]_vars

\* ----------------------------------------------------- a step with on_error
\* ErrorSpec runs the workflow whose first step names an onError successor.
ErrorWorkflows == {"guard", "ghost"}

ErrorNext ==
    \/ Tick
    \/ \E wf \in ErrorWorkflows : CreateExecution(wf, "none")
    \/ \E w \in Workers : Poll(w)
    \/ \E w \in Workers, e \in ExecIds : RunnerStep(w, e)
    \/ \E e \in ExecIds : Cancel(e)

ErrorSpec == Init /\ [][ErrorNext]_vars

\* ------------------------------------------------- executeStep and its timer
\* TimeoutSpec follows one call of executeStep: "engine" is the function of
\* engine.ts:445-606, which races the step logic against a timer; "executor"
\* is the function of executor.ts:208-247, which awaits the handler.  A
\* timer or a handler that is due acts before time moves on.
Impls == {"engine", "executor"}

StepCalls ==
    {[impl |-> i, timeoutMs |-> t, duration |-> d, outcome |-> o,
      elapsed |-> 0, handler |-> "running",
      timer |-> IF i = "engine" THEN "armed" ELSE "none", result |-> "none"] :
        i \in Impls, t \in 1..MaxTimeout, d \in 0..MaxDuration,
        o \in {"completed", "failed"}}

TimeoutInit ==
    /\ SystemInit
    /\ stepCall \in StepCalls
    /\ delayCall = NoDelayCall
    /\ machine = NewMachine
    /\ run = NoRun
    /\ retryCall = NoRetryCall

HandlerDue == stepCall.handler = "running" /\ stepCall.elapsed = stepCall.duration

TimerDue == stepCall.timer = "armed" /\ stepCall.elapsed = stepCall.timeoutMs

\* the first promise to settle decides the result
Settle(result, value) == IF result = "none" THEN value ELSE result

HandlerFinish ==
    /\ HandlerDue
    /\ stepCall' = [stepCall EXCEPT !.handler = "done",
                                    !.result = Settle(@, stepCall.outcome)]
    /\ UNCHANGED <<delayCall, machine, retryCall, run, store, fsLock, workerState, now,
                   executions, idempotencyKeys, apiMem, runner,
                   activeExecutions, dlqMem, dlqFile, crashes, cancels, hist>>

TimerFire ==
    /\ TimerDue
    /\ stepCall' = [stepCall EXCEPT !.timer = "fired",
                                    !.result = Settle(@, "timeout")]
    /\ UNCHANGED <<delayCall, machine, retryCall, run, store, fsLock, workerState, now,
                   executions, idempotencyKeys, apiMem, runner,
                   activeExecutions, dlqMem, dlqFile, crashes, cancels, hist>>

Elapse ==
    /\ stepCall.elapsed < MaxElapsed
    /\ ~HandlerDue
    /\ ~TimerDue
    /\ stepCall' = [stepCall EXCEPT !.elapsed = @ + 1]
    /\ UNCHANGED <<delayCall, machine, retryCall, run, store, fsLock, workerState, now,
                   executions, idempotencyKeys, apiMem, runner,
                   activeExecutions, dlqMem, dlqFile, crashes, cancels, hist>>

TimeoutNext == HandlerFinish \/ TimerFire \/ Elapse

TimeoutSpec == TimeoutInit /\ [][TimeoutNext]_vars

\* ------------------------------------------------------- calculateNextDelay
\* DelaySpec applies calculateNextDelay (retry-math.ts, lines 11-31) to whole
\* numbers of milliseconds.  Math.random() is a choice among all the values
\* that floor(cappedDelay + cappedDelay * r * 0.2), 0 <= r < 1, can take.
RECURSIVE Pow2(_)
Pow2(n) == IF n <= 0 THEN 1 ELSE 2 * Pow2(n - 1)

SafeAttempt(attempt) == IF attempt > 1 THEN attempt ELSE 1

CappedDelay(attempt, baseDelayMs, maxDelayMs) ==
    LET exponentialDelay == baseDelayMs * Pow2(SafeAttempt(attempt) - 1)
    IN  IF exponentialDelay < maxDelayMs THEN exponentialDelay ELSE maxDelayMs

\* a jitter of up to half the delay
JittersHalf(cappedDelay) == {m \in 0..cappedDelay : 2 * m <= cappedDelay}

\* floor(jitter) for jitter = cappedDelay * jitterFactor, 0 <= jitterFactor < 0.2
Jitters(cappedDelay) == {m \in 0..cappedDelay : m = 0 \/ 5 * m < cappedDelay}

calculateNextDelay(attempt, baseDelayMs, maxDelayMs) ==
    LET cappedDelay == CappedDelay(attempt, baseDelayMs, maxDelayMs)
    IN  {cappedDelay + m : m \in Jitters(cappedDelay)}

DelayBases == {1, 7, 10, 25}
DelayCaps == {5, 40, 100}

DelayInit ==
    /\ SystemInit
    /\ stepCall = NoStepCall
    /\ delayCall \in {[attempt |-> a, baseDelayMs |-> b, maxDelayMs |-> c,
                       done |-> FALSE, result |-> 0] :
                         a \in (1 - NonPositiveAttempts)..MaxAttempt, b \in DelayBases,
                         c \in DelayCaps}
    /\ machine = NewMachine
    /\ run = NoRun
    /\ retryCall = NoRetryCall

CalculateNextDelay ==
    /\ ~delayCall.done
    /\ \E d \in calculateNextDelay(delayCall.attempt, delayCall.baseDelayMs,
                                   delayCall.maxDelayMs) :
          delayCall' = [delayCall EXCEPT !.done = TRUE, !.result = d]
    /\ UNCHANGED <<stepCall, machine, retryCall, run, store, fsLock, workerState, now,
                   executions, idempotencyKeys, apiMem, runner,
                   activeExecutions, dlqMem, dlqFile, crashes, cancels, hist>>

DelayNext == CalculateNextDelay

DelaySpec == DelayInit /\ [][DelayNext]_vars

\* ---------------------------------------------------------------- withRetry
\* RetrySpec follows one call of withRetry (retry-policy.ts, lines 58-84).
\* Each call of fn either resolves ("ok") or throws an error, given by its
\* message.  backoffMultiplier 0 and maxDelayMs 0 stand for an absent field.
\* calls lists the outcomes of the calls of fn, retries the calls of onRetry.
RECURSIVE Pow(_, _)
Pow(b, n) == IF n <= 0 THEN 1 ELSE b * Pow(b, n - 1)

Min(a, b) == IF a < b THEN a ELSE b

calculateDelay(policy, attempt) ==
    LET multiplier == IF policy.backoffMultiplier = 0
                      THEN 1 ELSE policy.backoffMultiplier
        delay == policy.delayMs * Pow(multiplier, attempt - 1)
    IN  IF policy.maxDelayMs # 0 THEN Min(delay, policy.maxDelayMs) ELSE delay

nonRetryablePatterns ==
    {"INVALID_INPUT", "UNAUTHORIZED", "FORBIDDEN", "NOT_FOUND",
     "VALIDATION_ERROR"}

\* the messages fn throws: each is a pattern or contains none
ErrorMessages == {"Temporary failure", "UNAUTHORIZED", "NOT_FOUND"}

isNonRetryableError(error) == error \in nonRetryablePatterns

\* a policy under which every error is retried while attempts remain
shouldRetryAnyError(policy, attempt, error) == attempt < policy.maxAttempts

shouldRetry(policy, attempt, error) ==
    IF attempt >= policy.maxAttempts THEN FALSE
    ELSE IF isNonRetryableError(error) THEN FALSE
    ELSE TRUE

RetryPolicies ==
    {[maxAttempts |-> m, delayMs |-> d, backoffMultiplier |-> b,
      maxDelayMs |-> c] :
        m \in 0..MaxPolicyAttempts, d \in {1, 2}, b \in {0, 2}, c \in {0, 3}}

RetryInit ==
    /\ SystemInit
    /\ stepCall = NoStepCall
    /\ delayCall = NoDelayCall
    /\ machine = NewMachine
    /\ run = NoRun
    /\ retryCall \in {[maxAttempts |-> p.maxAttempts, delayMs |-> p.delayMs,
                       backoffMultiplier |-> p.backoffMultiplier,
                       maxDelayMs |-> p.maxDelayMs, pc |-> "loop",
                       attempt |-> 1, calls |-> <<>>, retries |-> <<>>] :
                         p \in RetryPolicies}

\* one pass of the for loop: fn is called and resolves or throws
WithRetryAttempt(outcome) ==
    /\ retryCall.pc = "loop"
    /\ retryCall.attempt <= retryCall.maxAttempts
    /\ LET called == [retryCall EXCEPT !.calls = Append(@, outcome)]
           attempt == retryCall.attempt
       IN  retryCall' =
             IF outcome = "ok" THEN [called EXCEPT !.pc = "returned"]
             ELSE IF ~shouldRetry(retryCall, attempt, outcome)
             THEN [called EXCEPT !.pc = "thrown"]
             ELSE IF attempt < retryCall.maxAttempts
             THEN [called EXCEPT
                     !.retries = Append(@,
                         [attempt |-> attempt,
                          delayMs |-> calculateDelay(retryCall, attempt)]),
                     !.attempt = attempt + 1]
             ELSE [called EXCEPT !.attempt = attempt + 1]
    /\ UNCHANGED <<stepCall, delayCall, machine, run, store, fsLock, workerState,
                   now, executions, idempotencyKeys, apiMem, runner,
                   activeExecutions, dlqMem, dlqFile, crashes, cancels, hist>>

\* the loop has ended without a return or a throw
WithRetryExhausted ==
    /\ retryCall.pc = "loop"
    /\ retryCall.attempt > retryCall.maxAttempts
    /\ retryCall' = [retryCall EXCEPT !.pc = "thrown"]
    /\ UNCHANGED <<stepCall, delayCall, machine, run, store, fsLock, workerState,
                   now, executions, idempotencyKeys, apiMem, runner,
                   activeExecutions, dlqMem, dlqFile, crashes, cancels, hist>>

RetryNext ==
    \/ \E outcome \in {"ok"} \cup ErrorMessages : WithRetryAttempt(outcome)
    \/ WithRetryExhausted

RetrySpec == RetryInit /\ [][RetryNext]_vars

\* ---------------------------------------------------- WorkflowStateMachine
\* MachineSpec sends events to one WorkflowStateMachine (state-machine.ts,
\* lines 58-158 of the file).
MachineEvents ==
    {[type |-> t, stepId |-> "none"] :
        t \in {"START", "PAUSE", "RESUME", "CANCEL"}}
    \cup {[type |-> t, stepId |-> s] :
        t \in {"STEP_COMPLETED", "STEP_FAILED", "RETRY"}, s \in StepIds}

handleIdleState(m, event) ==
    IF event.type = "START"
    THEN [m EXCEPT !.status = "running", !.machineState = "running"]
    ELSE m

handleRunningState(m, event) ==
    CASE event.type = "STEP_COMPLETED" ->
            [m EXCEPT !.completedSteps = @ \cup {event.stepId}]
      [] event.type = "STEP_FAILED" ->
            [m EXCEPT !.failedSteps[event.stepId] = @ + 1,
                      !.status = "failed", !.machineState = "failed"]
      [] event.type = "PAUSE" -> [m EXCEPT !.machineState = "paused"]
      [] event.type = "CANCEL" ->
            [m EXCEPT !.status = "cancelled", !.machineState = "failed"]
      [] OTHER -> m

handlePausedState(m, event) ==
    CASE event.type = "RESUME" -> [m EXCEPT !.machineState = "running"]
      [] event.type = "CANCEL" ->
            [m EXCEPT !.status = "cancelled", !.machineState = "failed"]
      [] OTHER -> m

\* a machine that treats the failed state like the running state
transitionFromFailed(m, event) ==
    CASE m.machineState = "idle" -> handleIdleState(m, event)
      [] m.machineState \in {"running", "failed"} ->
            handleRunningState(m, event)
      [] m.machineState = "paused" -> handlePausedState(m, event)
      [] OTHER -> m

transition(m, event) ==
    CASE m.machineState = "idle" -> handleIdleState(m, event)
      [] m.machineState = "running" -> handleRunningState(m, event)
      [] m.machineState = "paused" -> handlePausedState(m, event)
      [] OTHER -> m

canRetry(m, stepId, maxAttempts) ==
    m.failedSteps[stepId] = 0 \/ m.failedSteps[stepId] < maxAttempts

\* the machine was started and has since run or failed on a step
RunningOrFailed(m) ==
    \/ m.machineState = "running"
    \/ (m.machineState = "failed" /\ m.status = "failed")

Sent(before, after, event) ==
    IF event.type = "STEP_FAILED" /\ RunningOrFailed(before)
    THEN [after EXCEPT !.sent[event.stepId] = @ + 1]
    ELSE after

Transition(event) ==
    /\ event.type = "STEP_FAILED" => machine.sent[event.stepId] < MaxSent
    /\ machine' = Sent(machine, transition(machine, event), event)
    /\ UNCHANGED <<stepCall, delayCall, retryCall, run, store, fsLock, workerState, now,
                   executions, idempotencyKeys, apiMem, runner,
                   activeExecutions, dlqMem, dlqFile, crashes, cancels, hist>>

MarkCompleted ==
    /\ machine' = [machine EXCEPT !.status = "completed",
                                  !.machineState = "completed"]
    /\ UNCHANGED <<stepCall, delayCall, retryCall, run, store, fsLock, workerState, now,
                   executions, idempotencyKeys, apiMem, runner,
                   activeExecutions, dlqMem, dlqFile, crashes, cancels, hist>>

MachineNext ==
    \/ \E event \in MachineEvents : Transition(event)
    \/ MarkCompleted

MachineSpec == Init /\ [][MachineNext]_vars

\* ------------------------------------------------------ WorkflowRunner.run
\* RunSpec follows one call of WorkflowRunner.run (executor.ts, lines
\* 268-410) on its own WorkflowStateMachine, the variable machine.  The
\* workflow is a first step with any successor, error handler and type, and
\* a second step.  log lists the steps handed to executeStep with their
\* results.  cancel(), pause() and resume() may be called while run awaits.
RunWorkflows ==
    {<<>>}
    \cup {<<[id |-> "s1", next |-> n, maxAttempts |-> 1, type |-> t,
            onError |-> o],
           [id |-> "s2", next |-> "none", maxAttempts |-> 1, type |-> "log",
            onError |-> "none"]>> :
            n \in {"none", "s2", "s9"}, o \in {"none", "s2"},
            t \in {"log", "mystery"}}

\* stepMap.has(id), stepMap.get(id) for the workflow passed to run
RunHas(steps, id) == \E i \in 1..Len(steps) : steps[i].id = id
RunGet(steps, id) == steps[CHOOSE i \in 1..Len(steps) : steps[i].id = id]

\* the results executeStep of the package can return (executor.ts:208-247)
packageExecuteStep(step) ==
    IF step.type \in HandlerTypes THEN {"completed", "failed"} ELSE {"failed"}

RunInit ==
    /\ SystemInit
    /\ stepCall = NoStepCall
    /\ delayCall = NoDelayCall
    /\ retryCall = NoRetryCall
    /\ machine = NewMachine
    /\ run \in {[steps |-> wf, pc |-> "start", cur |-> "none", log |-> <<>>,
                 status |-> "none"] : wf \in RunWorkflows}

RunFrame ==
    UNCHANGED <<stepCall, delayCall, retryCall, store, fsLock, workerState,
                now, executions, idempotencyKeys, apiMem, runner,
                activeExecutions, dlqMem, dlqFile, crashes, cancels, hist>>

RunEvent(event) == Sent(machine, transition(machine, event), event)

\* executor.ts:288-294: START, the step map, the entry point
RunStart ==
    /\ run.pc = "start"
    /\ machine' = RunEvent([type |-> "START", stepId |-> "none"])
    /\ run' = [run EXCEPT !.pc = "loop",
                          !.cur = IF Len(run.steps) > 0
                                  THEN run.steps[1].id ELSE "none"]
    /\ RunFrame

\* the loop is left: markCompleted if still running, then the result
\* (executor.ts:376-388)
RunReturn(m, r) ==
    LET done == IF m.machineState = "running"
                THEN [m EXCEPT !.status = "completed",
                               !.machineState = "completed"]
                ELSE m
    IN  /\ machine' = done
        /\ run' = [r EXCEPT !.pc = "done",
                            !.status = IF done.status = "completed"
                                       THEN "completed" ELSE "failed"]

\* executor.ts:296-314: the loop test, the step lookup, the call of
\* executeStep; a missing step is thrown to the catch clause (390-409)
RunLoop ==
    /\ run.pc = "loop"
    /\ IF run.cur # "none" /\ machine.machineState = "running"
       THEN /\ run' = IF RunHas(run.steps, run.cur)
                      THEN [run EXCEPT !.pc = "exec"]
                      ELSE [run EXCEPT !.pc = "done", !.status = "failed"]
            /\ UNCHANGED machine
       ELSE RunReturn(machine, run)
    /\ RunFrame

\* executor.ts:316-374: executeStep has returned res
RunStepDone(res) ==
    LET step == RunGet(run.steps, run.cur)
        entry == [stepId |-> step.id, status |-> res]
    IN
    /\ run.pc = "exec"
    /\ res \in packageExecuteStep(step)
    /\ IF res = "completed"
       THEN /\ machine' = RunEvent([type |-> "STEP_COMPLETED",
                                    stepId |-> step.id])
            /\ run' = [run EXCEPT !.log = Append(@, entry),
                                  !.cur = step.next, !.pc = "loop"]
       ELSE LET failed == RunEvent([type |-> "STEP_FAILED",
                                    stepId |-> step.id])
            IN  IF step.onError # "none"
                THEN /\ machine' = failed
                     /\ run' = [run EXCEPT !.log = Append(@, entry),
                                           !.cur = step.onError,
                                           !.pc = "loop"]
                ELSE RunReturn(failed, [run EXCEPT !.log = Append(@, entry)])
    /\ RunFrame

\* executor.ts:412-422: cancel(), pause(), resume() during the run
RunSignal(type) ==
    /\ run.pc \in {"loop", "exec"}
    /\ machine' = RunEvent([type |-> type, stepId |-> "none"])
    /\ machine' # machine
    /\ UNCHANGED run
    /\ RunFrame

RunNext ==
    \/ RunStart
    \/ RunLoop
    \/ \E res \in {"completed", "failed"} : RunStepDone(res)
    \/ \E type \in {"CANCEL", "PAUSE", "RESUME"} : RunSignal(type)

RunSpec == RunInit /\ [][RunNext]_vars

\* ------------------------------------------------------------------ claims
Holders(e) == {w \in Workers : Running(w, e)}

DlqEntriesOf(e) ==
    {d \in dlqFile \cup UNION {dlqMem[w] : w \in Workers} : d.executionId = e}

DueRetry(ex, t) ==
    ex.status = "retry_scheduled" /\ ex.nextRetryAt # 0 /\ ex.nextRetryAt <= t

\* the addStepResult calls made for step s of execution e, in order
AppendsOf(e, s) == SelectSeq(hist.appends[e], LAMBDA r : r.stepId = s)

RunsOf(e, s) == Len(SelectSeq(hist.runs[e], LAMBDA id : id = s))

C2_TerminalStable ==
    [][\A e \in Created :
          executions[e].status \in Terminal
              => executions'[e].status = executions[e].status]_vars

\* C3: at any time at most one runner is executing a given execution.
C3_SingleRunner == \A e \in ExecIds : Cardinality(Holders(e)) <= 1

C5_AppendAdds ==
    \A e \in Created : Len(executions[e].steps) = Len(hist.appends[e])

\* C6: for each execution and step, the attempt numbers of the step results
\* the runner appends are strictly increasing.
C6_AttemptsIncrease ==
    \A e \in ExecIds : \A s \in StepIds :
        \A i, j \in 1..Len(AppendsOf(e, s)) :
            i < j => AppendsOf(e, s)[i].attempts < AppendsOf(e, s)[j].attempts

\* C7: a claim call made when every caller has room for all due executions
\* returns every retry_scheduled execution whose next_retry_at has passed.
C7_DueRetryClaimed ==
    [][(/\ ~hist.inBurst
        /\ hist'.inBurst
        /\ \A w \in Workers :
              Cardinality(Candidates(executions, now))
                 + Cardinality(activeExecutions[w]) <= WORKER_CONCURRENCY)
       => \A e \in Created :
              DueRetry(executions[e], now) => executions'[e].status = "running"]_vars

\* C8: an execution cancelled while it was running keeps the status
\* cancelled: its runner writes neither completed nor any other status.
C8_CancelSticks ==
    \A e \in hist.cancelled : executions[e].status = "cancelled"

\* C9: when the runner fails an execution because step s with max_attempts m
\* ran out of attempts, s was executed exactly m times and its failures were
\* appended with attempts 1..m, each with status failed.
C9_ExactlyMaxAttempts ==
    \A e \in Created :
        (hist.failedBy[e] = "exhausted" /\ executions[e].status = "failed") =>
            LET s == executions[e].currentStepId
                m == MaxAttemptsOf(stepMapGet(executions[e].workflowId, s))
            IN  /\ RunsOf(e, s) = m
                /\ Len(AppendsOf(e, s)) = m
                /\ \A i \in 1..Len(AppendsOf(e, s)) :
                      /\ AppendsOf(e, s)[i].attempts = i
                      /\ AppendsOf(e, s)[i].status = "failed"

\* C10: an execution the runner has set failed has exactly one dead letter
\* entry once the runner has returned, and never more than one.
C10_OneDlqEntry ==
    \A e \in Created :
        /\ Cardinality(DlqEntriesOf(e)) <= 1
        /\ (/\ hist.failedBy[e] # "none"
            /\ executions[e].status = "failed"
            /\ Holders(e) = {})
           => Cardinality(DlqEntriesOf(e)) = 1

\* the stored step results of step s of execution e with the given status
StoredOf(e, s, status) ==
    SelectSeq(executions[e].steps,
              LAMBDA r : r.stepId = s /\ r.status = status)

\* the failed results the runner appended for step s of execution e
FailuresOf(e, s) == Len(SelectSeq(AppendsOf(e, s), LAMBDA r : r.status = "failed"))

\* C11: when an execution is completed after some step failed and was
\* retried, its retry_count is 0 and the stored results of each step are one
\* completed result and as many failed results as the step had failures.
C11_RetryThenSuccess ==
    \A e \in Created :
        (executions[e].status = "completed" /\ hist.retries[e] >= 1) =>
            /\ executions[e].retryCount = 0
            /\ \A s \in StepIds :
                  /\ Len(StoredOf(e, s, "completed")) = 1
                  /\ Len(StoredOf(e, s, "failed")) = FailuresOf(e, s)

\* C12: the runner never starts a step of an execution for which a completed
\* result has already been appended.
C12_NoCompletedStepRerun ==
    [][\A e \in ExecIds :
          Len(hist'.runs[e]) > Len(hist.runs[e]) =>
              LET s == hist'.runs[e][Len(hist'.runs[e])] IN
              \A i \in 1..Len(hist.appends[e]) :
                  ~(/\ hist.appends[e][i].stepId = s
                    /\ hist.appends[e][i].status = "completed")]_vars

\* the lock of a running row is old enough for the store to give it up
LockExpired(ex, t) ==
    IF store = "file" THEN ~FileLockHeld(ex, t) ELSE StaleLock(ex, t)

\* some store operation returns the row to the workers: a claim call returns
\* it, or release_stale_locks resets it to pending
Recoverable(e) ==
    \/ \E S \in ClaimSets(executions, now, 1) : e \in S
    \/ store = "sql" /\ StaleLock(executions[e], now)

\* C13: an execution left running by a worker that is gone can be handed to
\* another worker once its lock has expired.
C13_OrphanRecoverable ==
    \A e \in Created :
        (/\ executions[e].status = "running"
         /\ Holders(e) = {}
         /\ LockExpired(executions[e], now))
        => Recoverable(e)

\* eligibility as the claim contract states it
EligibleAt(ex, t) ==
    \/ ex.status = "pending"
    \/ (ex.status = "retry_scheduled" /\ ex.nextRetryAt # 0 /\ ex.nextRetryAt <= t)

\* C15: every execution a claim call returns was, when the call was made,
\* pending or retry_scheduled with next_retry_at <= now.
C15_ClaimedWereEligible ==
    [][\A e \in Created :
          hist'.claimed[e] > hist.claimed[e] => EligibleAt(executions[e], now)]_vars

\* a due retry has just been claimed while a retry that is not yet due, and
\* a second claim of the running row, were refused
C15_Witness ==
    /\ hist.inBurst
    /\ Len(executions) = 2
    /\ hist.claimed[1] = 1 /\ hist.claimed[2] = 0
    /\ executions[1].status = "running" /\ executions[1].nextRetryAt # 0
    /\ executions[2].status = "retry_scheduled" /\ executions[2].nextRetryAt > now

\* C16: claim(worker, N) returns at most N executions; each is afterwards
\* running with worker_id = worker, locked_at = now and started_at kept if it
\* was set and now otherwise; every other execution is unchanged.
C16_ClaimStamps ==
    [][\A w \in Workers, limit \in 1..MaxLimit :
          (hist'.claimed # hist.claimed /\ StoreClaim(w, limit)) =>
              LET R == {e \in Created : hist'.claimed[e] > hist.claimed[e]} IN
              /\ Cardinality(R) <= limit
              /\ \A e \in R :
                    /\ executions'[e].status = "running"
                    /\ executions'[e].workerId = w
                    /\ executions'[e].lockedAt = now
                    /\ executions'[e].startedAt =
                          IF executions[e].startedAt # 0
                          THEN executions[e].startedAt ELSE now
              /\ \A e \in Created \ R : executions'[e] = executions[e]]_vars

\* a row that had been started earlier was claimed again, next to a row
\* that was claimed for the first time
C16_Witness ==
    /\ hist.inBurst
    /\ Len(executions) = 2
    /\ hist.claimed[1] = 1 /\ hist.claimed[2] = 1
    /\ executions[1].startedAt # 0 /\ executions[1].startedAt < executions[1].lockedAt
    /\ executions[2].startedAt = executions[2].lockedAt
    /\ executions[1].lockedAt = now /\ executions[2].lockedAt = now

\* C17: a claim call never passes over an eligible execution in favour of
\* one with a later created_at.
C17_OldestFirst ==
    [][\A a, b \in Created :
          (/\ hist'.claimed[a] > hist.claimed[a]
           /\ hist'.claimed[b] = hist.claimed[b]
           /\ EligibleAt(executions[b], now))
          => executions[a].createdAt <= executions[b].createdAt]_vars

\* C18: a claim call asking for at least as many executions as are eligible
\* returns every eligible execution.
C18_AllEligibleClaimed ==
    [][\A w \in Workers, limit \in 1..MaxLimit :
          (/\ StoreClaim(w, limit)
           /\ Cardinality({e \in Created : EligibleAt(executions[e], now)}) <= limit)
          => \A e \in Created :
                EligibleAt(executions[e], now) => hist'.claimed[e] > hist.claimed[e]]_vars

\* C20: an execution whose status is running has worker_id and locked_at set.
C20_RunningIsLocked ==
    \A e \in Created :
        executions[e].status = "running" =>
            (executions[e].workerId # "none" /\ executions[e].lockedAt # 0)

C19_NeverWaits ==
    \A w, v \in Workers :
        ~(fsLock.call[w].pc = "wait" /\ fsLock.call[v].pc = "locked")

\* C21: an execution whose status is completed, failed or cancelled has
\* completedAt set and has workerId and lockedAt cleared.
C21_TerminalCleared ==
    \A e \in Created :
        executions[e].status \in Terminal =>
            /\ executions[e].completedAt # 0
            /\ executions[e].workerId = "none"
            /\ executions[e].lockedAt = 0

\* C22: an execution whose status is retry_scheduled has nextRetryAt set and
\* currentStepId set.
C22_RetryHasDueStep ==
    \A e \in Created :
        executions[e].status = "retry_scheduled" =>
            /\ executions[e].nextRetryAt # 0
            /\ executions[e].currentStepId # "none"

\* the runner scheduled a retry and the execution waits for it
C22_Witness ==
    /\ Len(executions) >= 1
    /\ executions[1].status = "retry_scheduled"
    /\ hist.retries[1] >= 1
    /\ Holders(1) = {}

\* the cancel route answered ok for e while its stored status was st
CancelledFrom(e, st) ==
    \E i \in 1..Len(hist.cancelLog) :
        hist.cancelLog[i] = [id |-> e, was |-> st, response |-> "ok"]

\* C23: once a retry_scheduled execution has been cancelled, no later claim
\* call returns it.
C23_CancelledRetryNotClaimed ==
    [][\A e \in ExecIds :
          CancelledFrom(e, "retry_scheduled") =>
              hist'.claimed[e] <= hist.claimed[e]]_vars

\* C24: the cancel route reports a conflict if and only if the execution is
\* already completed, failed or cancelled; otherwise it sets the status to
\* cancelled and completedAt to the current time.
C24_CancelConflictIffTerminal ==
    [][Len(hist'.cancelLog) > Len(hist.cancelLog) =>
          LET c == hist'.cancelLog[Len(hist'.cancelLog)] IN
          /\ (c.response = "conflict") <=> (c.was \in Terminal)
          /\ c.response = "ok" =>
                /\ executions'[c.id].status = "cancelled"
                /\ executions'[c.id].completedAt = now]_vars

\* executions the claim step under way returns
ReturnedNow == {e \in ExecIds : hist'.claimed[e] > hist.claimed[e]}

\* C25: a worker's active set never holds more executions than its
\* concurrency, and each of its claim calls is made with free capacity and
\* brings back at most that many executions.
C25_ConcurrencyCap ==
    [][\A w \in Workers :
          /\ Cardinality(activeExecutions'[w]) <= LowConcurrency
          /\ (\E e \in ReturnedNow : executions'[e].workerId = w) =>
                /\ LowConcurrency - Cardinality(activeExecutions[w]) > 0
                /\ Cardinality(ReturnedNow)
                      <= LowConcurrency - Cardinality(activeExecutions[w])]_vars

\* the worker is at its capacity while another execution waits to be claimed
C25_Witness ==
    /\ Cardinality(activeExecutions["w1"]) = LowConcurrency
    /\ \E e \in Created : e \notin activeExecutions["w1"]
                          /\ EligibleAt(executions[e], now)

\* C26: after a worker received the stop signal it makes no further claim,
\* and its stop procedure has finished when its active set is empty or the
\* stop deadline has passed.
C26_StopDrainsOrDeadline ==
    [][\A w \in Workers :
          /\ (~workerState[w].isRunning) =>
                ~\E e \in ReturnedNow : executions'[e].workerId = w
          /\ (~workerState'[w].isRunning /\ ~workerState'[w].exited) =>
                now' - workerState'[w].stopAt <= StopDeadline]_vars

\* C27: a step whose type has no registered handler makes the execution fail
\* on that attempt: no retry is scheduled for a step of an unknown type.
C27_UnknownTypeNotRetried ==
    [][\A e \in Created :
          hist'.retries[e] > hist.retries[e] =>
              stepMapGet(executions[e].workflowId,
                         executions'[e].currentStepId).type \in HandlerTypes]_vars

\* C28: if the handler has not finished when the step's timeout elapses,
\* executeStep returns a failed result that reports the timeout, and the
\* handler finishing later does not change it; if the handler finishes
\* first, its own result is returned.
C28_TimeoutWinsRace ==
    stepCall.impl # "none" =>
        /\ (stepCall.timeoutMs < stepCall.duration
            /\ stepCall.elapsed > stepCall.timeoutMs) =>
                stepCall.result = "timeout"
        /\ (stepCall.duration < stepCall.timeoutMs
            /\ stepCall.elapsed > stepCall.duration) =>
                stepCall.result = stepCall.outcome

\* min(base * 2^(a-1), max) for a >= 1, written out
BackoffCap(a, base, max) ==
    LET RECURSIVE Dbl(_, _)
        Dbl(x, n) == IF n = 0 THEN x ELSE Dbl(x + x, n - 1)
        e == Dbl(base, a - 1)
    IN  IF e <= max THEN e ELSE max

\* C29: for every attempt a >= 1 calculateNextDelay(a, base, max) returns d
\* with c <= d <= 1.2 c, where c = min(base * 2^(a-1), max); an attempt <= 0
\* gives the range of attempt 1.
C29_DelayInRange ==
    delayCall.done =>
        LET a == IF delayCall.attempt >= 1 THEN delayCall.attempt ELSE 1
            c == BackoffCap(a, delayCall.baseDelayMs, delayCall.maxDelayMs)
        IN  /\ c <= delayCall.result
            /\ 5 * delayCall.result <= 6 * c

\* a capped delay with jitter on it, and a normalised attempt
C29_Witness ==
    /\ delayCall.done
    /\ delayCall.attempt = 4
    /\ delayCall.baseDelayMs = 10
    /\ delayCall.maxDelayMs = 40
    /\ delayCall.result = 47

\* C30: every STEP_FAILED event for a step raises that step's recorded
\* attempts by one: after k STEP_FAILED events for a step, sent to a machine
\* that was started and not paused, cancelled or completed, its attempts is
\* k, and canRetry(step, m) is false whenever k >= m.
C30_AttemptsCountFailures ==
    \A s \in StepIds :
        /\ machine.failedSteps[s] = machine.sent[s]
        /\ \A m \in 1..MaxSent :
              machine.sent[s] >= m => ~canRetry(machine, s, m)

\* the fields of the machine that the program holds (sent is bookkeeping)
MachineFields(m) ==
    <<m.machineState, m.status, m.completedSteps, m.failedSteps>>

\* C31: once the WorkflowStateMachine is in state completed or failed, no
\* event passed to transition() changes its state (nor its context).
C31_TerminalMachineStable ==
    [][\A event \in MachineEvents :
          (/\ machine.machineState \in {"completed", "failed"}
           /\ Transition(event))
          => MachineFields(machine') = MachineFields(machine)]_vars

\* a STEP_FAILED event was sent to a machine that had failed, and dropped
C31_Witness ==
    /\ machine.machineState = "failed"
    /\ machine.status = "failed"
    /\ \E s \in StepIds : machine.sent[s] = 2 /\ machine.failedSteps[s] = 1

\* the attempt numbers onRetry was called with, in order
RetryAttempts == [i \in 1..Len(retryCall.retries) |-> retryCall.retries[i].attempt]

\* the onRetry calls due once n calls of fn were made
FirstAttempts(n) == [i \in 1..n |-> i]

\* C32: withRetry calls fn at most maxAttempts times; a success or a
\* non-retryable error is the last call and ends the run; onRetry is called
\* once after each failed attempt except the final one, with 1, 2, ...
C32_WithRetryContract ==
    LET n == Len(retryCall.calls)
        ended == retryCall.pc \in {"returned", "thrown"}
    IN  /\ n <= retryCall.maxAttempts
        /\ \A i \in 1..n :
              (retryCall.calls[i] = "ok"
               \/ isNonRetryableError(retryCall.calls[i]))
              => (i = n /\ ended)
        /\ retryCall.pc = "returned" <=> (n > 0 /\ retryCall.calls[n] = "ok")
        /\ RetryAttempts =
              FirstAttempts(IF ended /\ n > 0 THEN n - 1 ELSE n)

\* three retryable failures under maxAttempts 3: thrown after onRetry(1), (2)
C32_Witness ==
    /\ retryCall.pc = "thrown"
    /\ retryCall.maxAttempts = 3
    /\ retryCall.calls =
          <<"Temporary failure", "Temporary failure", "Temporary failure">>
    /\ RetryAttempts = <<1, 2>>

\* C33: an execution's status becomes running only as the effect of a claim
\* call: no step of the runner, cancel or plain update turns a status that
\* was not running into running.
C33_RunningOnlyByClaim ==
    [][\A e \in Created :
          (executions[e].status # "running"
           /\ executions'[e].status = "running")
          => hist'.claimed[e] > hist.claimed[e]]_vars

\* C34: while an execution is not terminal, the persisted current_step_id is
\* the step a resumed run must continue with: it never names a step whose
\* completed result is already persisted.
C34_CursorNotCompleted ==
    \A e \in Created :
        executions[e].status \notin Terminal =>
            Len(StoredOf(e, executions[e].currentStepId, "completed")) = 0

\* C35: when the runner leaves at the cancellation check made after a step
\* has run, the result of that step has been appended to the execution's
\* step results.
C35_CancelledStepAppended ==
    [][\A w \in Workers, e \in ExecIds :
          (/\ runner[w][e].pc = "step"
           /\ runner'[w][e].pc = "idle"
           /\ crashes' = crashes)
          => /\ Len(hist'.appends[e]) = Len(hist.appends[e]) + 1
             /\ hist'.appends[e][Len(hist'.appends[e])].stepId
                    = runner[w][e].cur]_vars

\* C36: when a step that defines an on_error successor has used up its
\* retry budget, the on_error step is not executed: the runner sets the
\* execution to failed and puts it in the DLQ.
C36_OnErrorNotHonored ==
    [][\A w \in Workers, e \in Created :
          executions[e].workflowId = "guard" =>
              /\ "s2" \notin {hist'.runs[e][i] : i \in 1..Len(hist'.runs[e])}
              /\ (runner[w][e].pc = "f1" /\ runner'[w][e].pc # "f1"
                   /\ AttemptOf(runner[w][e]) >=
                          MaxAttemptsOf(stepMapGet("guard", runner[w][e].cur)))
                  => runner'[w][e].pc = "fatal"
              /\ (runner[w][e].pc = "fatal" /\ runner'[w][e].pc # "fatal")
                  => (executions'[e].status = "failed"
                      /\ runner'[w][e].pc = "dlq")
              /\ (runner[w][e].pc = "dlq" /\ runner'[w][e].pc # "dlq")
                  => \E d \in dlqFile' : d.executionId = e]_vars

\* the step with on_error failed twice; the execution is failed and in the DLQ
C36_Witness ==
    \E e \in Created :
        /\ executions[e].workflowId = "guard"
        /\ hist.failedBy[e] = "exhausted"
        /\ executions[e].status = "failed"
        /\ Len(hist.runs[e]) = 2
        /\ DlqEntriesOf(e) # {}

\* C37: in WorkflowRunner.run, when a step fails and defines onError, the
\* runner goes on to execute the onError step: in a run that has returned,
\* every failed step with an onError is followed in the log by that step.
C37_OnErrorStepRuns ==
    run.pc = "done" =>
        \A i \in 1..Len(run.log) :
            LET step == RunGet(run.steps, run.log[i].stepId) IN
            (run.log[i].status = "failed" /\ step.onError # "none")
            => (i < Len(run.log) /\ run.log[i + 1].stepId = step.onError)

\* C38: when a step completes, the runner's reset leaves the persisted
\* retry_count at 0 and next_retry_at cleared.
C38_CompletedResetsRetry ==
    [][\A w \in Workers, e \in Created :
          (runner[w][e].pc = "c1" /\ runner'[w][e].pc = "c2")
          => /\ executions'[e].retryCount = 0
             /\ executions'[e].nextRetryAt = 0]_vars

\* C39: a store write (updateExecution or addStepResult) to an existing
\* execution that returns normally has been applied.
C39_WriteAppliedOrReported ==
    [][\A w \in Workers :
          (/\ fsLock.call[w].pc # "idle"
           /\ fsLock'.call[w].pc = "idle"
           /\ fsLock'.call[w].outcome = "returned")
          => /\ fsLock.call[w].op = "update" =>
                  executions'[1].status = MutexPatch.status
             /\ fsLock.call[w].op = "addStep" =>
                  \E i \in 1..Len(executions'[1].steps) :
                      executions'[1].steps[i] = MutexStep]_vars

\* the callers inside the section guarded by the lock directory
InLockedSection(lock) == {w \in Workers : lock.call[w].pc = "locked"}

\* C40: at most one store operation is inside the locked section at any
\* time, and the lock directory is removed only by the operation that
\* created it: no removal leaves another caller inside the section.
C40_LockDirectoryMutex ==
    [][/\ Cardinality(InLockedSection(fsLock')) <= 1
       /\ (fsLock.dir # 0 /\ fsLock'.dir = 0) =>
              InLockedSection(fsLock') = {}]_vars

====
